---- MODULE Spec2Model ----
(***************************************************************************)
(* Model of the items API: routes/itemRoutes.js (the router and its eight  *)
(* handlers) over the Item model of models/Item.js.                        *)
(*                                                                         *)
(* JavaScript values are tagged records [t, v]; JavaScript objects (a      *)
(* request body, a query, a filter, a stored document) are functions from  *)
(* property names to values, a missing property being outside the domain.  *)
(***************************************************************************)
EXTENDS Integers, Sequences, FiniteSets, TLC

\* Bound of the model: the effective writes of a run. Each advances the store's
\* clock by one, and at most that many identifiers are ever handed out.
MaxClock == 2

VARIABLES
    items,   \* the collection: identifier number -> stored document
    nextId,  \* the next identifier the store generates
    now,     \* the store's clock, read for createdAt / updatedAt
    req,     \* the request handled last, and whether its store call threw
    res,     \* its response: status, body, whether console.error was called
    fa,      \* GET /filters/all: the next query (0: none in progress), the lists
             \* so far, and (history) the collection states since it began;
             \* kept after its response until the next request
    hist,    \* history: per identifier, the last effective write and its input
    sent     \* the filter the last request passed to Item.find (empty if none)

vars == <<items, nextId, now, req, res, fa, hist, sent>>

----------------------------------------------------------------------------
\* JavaScript values

Undefined == [t |-> "undefined", v |-> 0]
Null == [t |-> "null", v |-> 0]
S(s) == [t |-> "string", v |-> s]
N(n) == [t |-> "number", v |-> n]
Arr(q) == [t |-> "array", v |-> q]
Obj(op, arg) == [t |-> "object", v |-> <<op, arg>>]
Oid(n) == [t |-> "oid", v |-> n]

EmptyObj == [k \in {} |-> Undefined]

\* o.k
Get(o, k) == IF k \in DOMAIN o THEN o[k] ELSE Undefined

\* o.k = v
Put(o, k, v) == [x \in DOMAIN o \cup {k} |-> IF x = k THEN v ELSE o[x]]

\* if (x): JavaScript truthiness
Truthy(x) ==
    CASE x.t = "undefined" -> FALSE
      [] x.t = "null" -> FALSE
      [] x.t = "string" -> x.v # ""
      [] x.t = "number" -> x.v # 0
      [] OTHER -> TRUE

----------------------------------------------------------------------------
\* models/Item.js: the schema

StringPaths ==
    {"end_year", "sector", "topic", "insight", "url", "region", "start_year",
     "impact", "added", "published", "country", "pestle", "source", "title"}

NumberPaths == {"intensity", "relevance", "likelihood"}

SchemaPaths == StringPaths \cup NumberPaths

\* { type: String, default: "" }
SchemaDefaults ==
    [p \in {"end_year", "start_year", "impact"} |-> S("")]

\* What the persistence layer adds to a document: { timestamps: true } and the
\* identifier and version key every schema has.
StoreKeys == {"_id", "createdAt", "updatedAt", "__v"}

\* Decimal text <-> number, over the numbers the inputs use.
NumberText == (5 :> "5") @@ (2020 :> "2020")

ParseNumber(s) ==
    IF \E n \in DOMAIN NumberText : NumberText[n] = s
    THEN N(CHOOSE n \in DOMAIN NumberText : NumberText[n] = s)
    ELSE [t |-> "NaN", v |-> 0]

CastError == [t |-> "CastError", v |-> 0]

\* The schema type's cast of an input value (type: String / type: Number).
CastString(x) ==
    CASE x.t = "string" -> x
      [] x.t = "null" -> Null
      [] x.t = "number" ->
           IF x.v \in DOMAIN NumberText THEN S(NumberText[x.v]) ELSE CastError
      [] OTHER -> CastError

CastNumber(x) ==
    CASE x.t = "number" -> x
      [] x.t = "null" -> Null
      [] x.t = "string" ->
           IF x.v = "" THEN Null
           ELSE IF ParseNumber(x.v).t = "number" THEN ParseNumber(x.v)
           ELSE CastError
      [] OTHER -> CastError

CastPath(p, x) == IF p \in NumberPaths THEN CastNumber(x) ELSE CastString(x)

\* The schema's view of an input object: paths outside the schema are dropped
\* (strict), the others cast to their type.
CastBody(body) ==
    [p \in DOMAIN body \cap SchemaPaths |-> CastPath(p, body[p])]

CastFails(body) == \E p \in DOMAIN body \cap SchemaPaths : CastPath(p, body[p]) = CastError

IsValidObjectId(x) == x.t = "oid"

----------------------------------------------------------------------------
\* The store's errors and the handlers' responses

NoFault == "none"
StoreErrors == {"ECONNRESET", "ETIMEDOUT"}
Faults == {NoFault} \cup StoreErrors

\* err.message of the CastError a malformed identifier raises
CastIdMessage == "Cast to ObjectId failed"

Message(text) == [message |-> text]

Response(status, kind, body, logged) ==
    [status |-> status, kind |-> kind, body |-> body, logged |-> logged]

Request(op, id, body, threw) == [op |-> op, id |-> id, body |-> body, threw |-> threw]

\* A variant of the catch block of router.put("/:id"): it answers 500, as the
\* read handlers do.
UpdateCatchServerError(err) ==
    Response(500, "message", Message("Failed to update item"), TRUE)

\* The catch blocks; err is err.message.
ListCatch(err) == Response(500, "message", Message("Server Error"), TRUE)
GetByIdCatch(err) == Response(500, "message", Message(err), FALSE)
CreateCatch(err) == Response(400, "message", Message("Failed to add item"), TRUE)
UpdateCatch(err) == Response(400, "message", Message("Failed to update item"), TRUE)
DeleteCatch(err) == Response(400, "message", Message("Failed to delete item"), TRUE)
FiltersCatch(err) == Response(500, "message", Message("Failed to load filters"), TRUE)
FilterCatch(err) == Response(500, "message", Message("Failed to filter data"), TRUE)
StatsCatch(err) == Response(500, "message", Message("Failed to fetch statistics"), TRUE)

Idle == [pc |-> 0, acc |-> EmptyObj, seen |-> {}]

----------------------------------------------------------------------------
\* Item.findById / new Item(body).save() / findByIdAndUpdate / findByIdAndDelete /
\* Item.find / Item.distinct

Ids == 1..MaxClock

Docs == {items[i] : i \in DOMAIN items}

Has(id) == IsValidObjectId(id) /\ id.v \in DOMAIN items

\* A variant of new Item(body): the schema's defaults are not applied.
NewItemWithoutDefaults(body, id) ==
    LET stamp == [k \in StoreKeys |->
                    CASE k = "_id" -> id
                      [] k = "__v" -> N(0)
                      [] OTHER -> N(now + 1)]
    IN  CastBody(body) @@ stamp

\* new Item(body): the defaults, then the cast input over them, then what the
\* store assigns.
NewItem(body, id) ==
    LET given == CastBody(body)
        paths == DOMAIN SchemaDefaults \cup DOMAIN given
        fields == [p \in paths |-> IF p \in DOMAIN given THEN given[p] ELSE SchemaDefaults[p]]
        stamp == [k \in StoreKeys |->
                    CASE k = "_id" -> id
                      [] k = "__v" -> N(0)
                      [] OTHER -> N(now + 1)]
    IN  fields @@ stamp

\* The identifier of a new document: the body's _id when it gives one, else a
\* generated one.
NewId(body) == IF "_id" \in DOMAIN body THEN body["_id"] ELSE Oid(nextId)

\* save() rejects: a value that does not cast, a malformed _id, a duplicate _id.
SaveRejects(body) ==
    \/ CastFails(body)
    \/ ~IsValidObjectId(NewId(body))
    \/ Has(NewId(body))

\* A variant of the update: the body replaces the document (overwrite) instead
\* of being merged into it.
ApplyOverwrite(doc, body) ==
    LET given == CastBody(body)
    IN  [k \in StoreKeys \cup DOMAIN given |->
            IF k = "updatedAt" THEN N(now + 1)
            ELSE IF k \in DOMAIN given THEN given[k]
            ELSE doc[k]]

\* { $set: body, updatedAt } on one document
ApplyUpdate(doc, body) ==
    LET given == CastBody(body)
    IN  [k \in DOMAIN doc \cup DOMAIN given |->
            IF k = "updatedAt" THEN N(now + 1)
            ELSE IF k \in DOMAIN given THEN given[k]
            ELSE doc[k]]

\* A variant of the removal: the document stays (a soft delete).
RemoveNone(id) == items

\* The collection without the document of that identifier
Remove(id) == [i \in DOMAIN items \ {id.v} |-> items[i]]

\* One condition of a filter on a String path, as the query is cast and matched:
\* a string is equality, an array is $in, { $ne: s } is inequality (a document
\* without the field satisfies it).
Satisfies(doc, k, c) ==
    CASE c.t = "string" -> Get(doc, k) = c
      [] c.t = "array" -> \E i \in DOMAIN c.v : Get(doc, k) = S(c.v[i])
      [] c.t = "object" /\ c.v[1] = "$ne" -> Get(doc, k) # S(c.v[2])
      [] OTHER -> FALSE

Matches(doc, filter) == \A k \in DOMAIN filter : Satisfies(doc, k, filter[k])

\* Item.find(filter)
Find(filter) == {d \in Docs : Matches(d, filter)}

\* A variant of distinct: a document without the field gives null.
DistinctWithMissing(coll, field) ==
    {IF field \in DOMAIN coll[i] THEN coll[i][field] ELSE Null : i \in DOMAIN coll}

\* Item.distinct(field) on a collection state: the values the field takes, a
\* document without the field giving none.
Distinct(coll, field) ==
    {coll[i][field] : i \in {j \in DOMAIN coll : field \in DOMAIN coll[j]}}

Journal(id, kind, body) == Put(hist, id.v, [last |-> kind, input |-> body])

----------------------------------------------------------------------------
\* if (x) filter.k = x
SetIf(filter, k, x) == IF Truthy(x) THEN Put(filter, k, x) ELSE filter

\* router.get("/"): the filter built from req.query
ListFilter(query) ==
    LET f1 == SetIf(EmptyObj, "country", Get(query, "country"))
        f2 == SetIf(f1, "sector", Get(query, "sector"))
        f3 == SetIf(f2, "topic", Get(query, "topic"))
        f4 == SetIf(f3, "pestle", Get(query, "pestle"))
        f5 == SetIf(f4, "region", Get(query, "region"))
        f6 == SetIf(f5, "start_year", Get(query, "start_year"))
        f7 == SetIf(f6, "end_year", Get(query, "end_year"))
    IN  f7

\* A variant of the chart filter: end_year is not read.
ChartFilterWithoutEndYear(body) ==
    LET f1 == SetIf(EmptyObj, "region", Get(body, "region"))
        f2 == SetIf(f1, "sector", Get(body, "sector"))
        f3 == SetIf(f2, "topic", Get(body, "topic"))
        f5 == SetIf(f3, "country", Get(body, "country"))
        f6 == SetIf(f5, "pestle", Get(body, "pestle"))
        f7 == SetIf(f6, "source", Get(body, "source"))
    IN  f7

\* router.post("/filter"): the filter built from req.body
ChartFilter(body) ==
    LET f1 == SetIf(EmptyObj, "region", Get(body, "region"))
        f2 == SetIf(f1, "sector", Get(body, "sector"))
        f3 == SetIf(f2, "topic", Get(body, "topic"))
        f4 == SetIf(f3, "end_year", Get(body, "end_year"))
        f5 == SetIf(f4, "country", Get(body, "country"))
        f6 == SetIf(f5, "pestle", Get(body, "pestle"))
        f7 == SetIf(f6, "source", Get(body, "source"))
    IN  f7

\* router.get("/")
List(query, fault) ==
    /\ req' = Request("list", Undefined, query, fault # NoFault)
    /\ sent' = ListFilter(query)
    /\ res' = IF fault # NoFault THEN ListCatch(fault)
              ELSE Response(200, "docs", Find(ListFilter(query)), FALSE)
    /\ UNCHANGED <<items, nextId, now, hist>>

\* router.post("/filter")
Filter(body, fault) ==
    /\ req' = Request("filter", Undefined, body, fault # NoFault)
    /\ sent' = ChartFilter(body)
    /\ res' = IF fault # NoFault THEN FilterCatch(fault)
              ELSE Response(200, "docs", Find(ChartFilter(body)), FALSE)
    /\ UNCHANGED <<items, nextId, now, hist>>

\* router.get("/:id")
GetById(id, fault) ==
    /\ req' = Request("get", id, EmptyObj, ~IsValidObjectId(id) \/ fault # NoFault)
    /\ sent' = EmptyObj
    /\ res' = IF ~IsValidObjectId(id) THEN GetByIdCatch(CastIdMessage)
              ELSE IF fault # NoFault THEN GetByIdCatch(fault)
              ELSE IF ~Has(id) THEN Response(404, "message", Message("Item not found"), FALSE)
              ELSE Response(200, "doc", items[id.v], FALSE)
    /\ UNCHANGED <<items, nextId, now, hist>>

\* router.post("/")
Create(body, fault) ==
    /\ req' = Request("create", Undefined, body, fault # NoFault \/ SaveRejects(body))
    /\ sent' = EmptyObj
    /\ IF fault # NoFault \/ SaveRejects(body)
       THEN /\ res' = CreateCatch(fault)
            /\ UNCHANGED <<items, nextId, now, hist>>
       ELSE LET id == NewId(body)
                doc == NewItem(body, id)
            IN  /\ now < MaxClock
                /\ items' = Put(items, id.v, doc)
                /\ nextId' = IF "_id" \in DOMAIN body THEN nextId ELSE nextId + 1
                /\ now' = now + 1
                /\ hist' = Journal(id, "create", body)
                /\ res' = Response(201, "doc", doc, FALSE)

\* router.put("/:id")
Update(id, body, fault) ==
    LET throws == ~IsValidObjectId(id) \/ fault # NoFault \/ CastFails(body)
    IN  /\ req' = Request("update", id, body, throws)
        /\ sent' = EmptyObj
        /\ IF throws
           THEN /\ res' = UpdateCatch(fault)
                /\ UNCHANGED <<items, nextId, now, hist>>
           ELSE IF ~Has(id)
           THEN /\ res' = Response(200, "null", Null, FALSE)
                /\ UNCHANGED <<items, nextId, now, hist>>
           ELSE LET doc == ApplyUpdate(items[id.v], body)
                IN  /\ now < MaxClock
                    /\ items' = [items EXCEPT ![id.v] = doc]
                    /\ now' = now + 1
                    /\ hist' = Journal(id, "update", body)
                    /\ res' = Response(200, "doc", doc, FALSE)
                    /\ UNCHANGED nextId

\* router.delete("/:id")
Delete(id, fault) ==
    LET throws == ~IsValidObjectId(id) \/ fault # NoFault
    IN  /\ req' = Request("delete", id, EmptyObj, throws)
        /\ sent' = EmptyObj
        /\ IF throws
           THEN /\ res' = DeleteCatch(fault)
                /\ UNCHANGED <<items, nextId, now, hist>>
           ELSE /\ Has(id) => now < MaxClock
                /\ items' = Remove(id)
                /\ now' = IF Has(id) THEN now + 1 ELSE now
                /\ hist' = Journal(id, "delete", EmptyObj)
                /\ res' = Response(200, "message", Message("Item deleted"), FALSE)
                /\ UNCHANGED nextId

----------------------------------------------------------------------------
\* Item.aggregate: the stages the four pipelines of GET /stats/aggregate use

\* An object literal: a later property replaces an earlier one of the same name.
RECURSIVE ObjectLiteral(_)
ObjectLiteral(props) ==
    IF props = <<>> THEN EmptyObj
    ELSE LET n == Len(props)
         IN  Put(ObjectLiteral(SubSeq(props, 1, n - 1)), props[n][1], props[n][2])

\* "$field" in a stage: a document without the field reads as null
FieldOrNull(doc, field) == IF field \in DOMAIN doc THEN doc[field] ELSE Null

\* { $match: { field: cond } }, cond an object of $ne operators
MatchStage(docs, field, cond) ==
    {d \in docs : \A op \in DOMAIN cond : op = "$ne" => FieldOrNull(d, field) # cond[op]}

RECURSIVE SumOf(_, _)
SumOf(docs, field) ==
    IF docs = {} THEN 0
    ELSE LET d == CHOOSE x \in docs : TRUE
         IN  d[field].v + SumOf(docs \ {d}, field)

RECURSIVE Gcd(_, _)
Gcd(a, b) == IF b = 0 THEN a ELSE Gcd(b, a % b)

\* sum / count: a number when the division is exact, else the fraction in lowest
\* terms
Quotient(sum, count) ==
    IF sum % count = 0 THEN N(sum \div count)
    ELSE [t |-> "fraction", v |-> <<sum \div Gcd(sum, count), count \div Gcd(sum, count)>>]

\* { $avg: "$field" } over a group: the mean of the numeric values, null when
\* the group has none
Avg(docs, field) ==
    LET nums == {d \in docs : FieldOrNull(d, field).t = "number"}
    IN  IF nums = {} THEN Null ELSE Quotient(SumOf(nums, field), Cardinality(nums))

GroupKeys(docs, by) == {FieldOrNull(d, by) : d \in docs}

GroupOf(docs, by, key) == {d \in docs : FieldOrNull(d, by) = key}

\* { $group: { _id: "$by", name: { $avg: "$field" } } }
GroupAvg(docs, by, name, field) ==
    {Put(Put(EmptyObj, "_id", key), name, Avg(GroupOf(docs, by, key), field)) :
        key \in GroupKeys(docs, by)}

\* { $group: { _id: "$by", name: { $sum: 1 } } }
GroupCount(docs, by, name) ==
    {Put(Put(EmptyObj, "_id", key), name, N(Cardinality(GroupOf(docs, by, key)))) :
        key \in GroupKeys(docs, by)}

\* The store's order of values: null, then numbers, then strings; the strings a
\* sort compares are listed in their order.
StringOrder == <<"", "2020", "2030">>

TypeRank(x) == CASE x.t = "null" -> 1 [] x.t \in {"number", "fraction"} -> 2 [] OTHER -> 3

Fraction(x) == IF x.t = "number" THEN <<x.v, 1>> ELSE x.v

Position(s) == CHOOSE i \in DOMAIN StringOrder : StringOrder[i] = s

Less(a, b) ==
    \/ TypeRank(a) < TypeRank(b)
    \/ /\ TypeRank(a) = 2 /\ TypeRank(b) = 2
       /\ Fraction(a)[1] * Fraction(b)[2] < Fraction(b)[1] * Fraction(a)[2]
    \/ /\ TypeRank(a) = 3 /\ TypeRank(b) = 3
       /\ Position(a.v) < Position(b.v)

\* { $sort: { key: dir } }: every order of the groups the sort allows (equal keys
\* come in any order)
SortStage(groups, key, dir) ==
    LET n == Cardinality(groups)
    IN  {s \in [1..n -> groups] :
            /\ \A i, j \in 1..n : i # j => s[i] # s[j]
            /\ \A i \in 1..n, j \in 1..n :
                 i < j => IF dir = 1 THEN ~Less(s[j][key], s[i][key])
                          ELSE ~Less(s[i][key], s[j][key])}

AvgIntensityByRegion ==
    SortStage(
        GroupAvg(MatchStage(Docs, "intensity", ObjectLiteral(<< <<"$ne", Null>> >>)),
                 "region", "avgIntensity", "intensity"),
        "avgIntensity", -1)

\* A variant of countByTopic: it has the $match stage the averaging pipelines
\* have, on its group field.
CountByTopicMatched ==
    SortStage(
        GroupCount(MatchStage(Docs, "topic", ObjectLiteral(<< <<"$ne", Null>> >>)),
                   "topic", "count"),
        "count", -1)

CountByTopic ==
    SortStage(GroupCount(Docs, "topic", "count"), "count", -1)

AvgLikelihoodBySector ==
    SortStage(
        GroupAvg(MatchStage(Docs, "likelihood", ObjectLiteral(<< <<"$ne", Null>> >>)),
                 "sector", "avgLikelihood", "likelihood"),
        "avgLikelihood", -1)

AvgRelevanceByYear ==
    SortStage(
        GroupAvg(MatchStage(Docs, "relevance",
                            ObjectLiteral(<< <<"$ne", Null>>, <<"$ne", S("")>> >>)),
                 "end_year", "avgRelevance", "relevance"),
        "_id", 1)

\* router.get("/stats/aggregate")
Stats(fault) ==
    /\ req' = Request("stats", Undefined, EmptyObj, fault # NoFault)
    /\ sent' = EmptyObj
    /\ IF fault # NoFault THEN res' = StatsCatch(fault)
       ELSE \E a \in AvgIntensityByRegion, c \in CountByTopic,
               l \in AvgLikelihoodBySector, r \in AvgRelevanceByYear :
              res' = Response(200, "stats",
                              [avgIntensityByRegion |-> a, countByTopic |-> c,
                               avgLikelihoodBySector |-> l, avgRelevanceByYear |-> r],
                              FALSE)
    /\ UNCHANGED <<items, nextId, now, hist>>

----------------------------------------------------------------------------
\* router.get("/filters/all"): nine distinct queries, one after the other

FilterLists ==
    << <<"countries", "country">>, <<"sectors", "sector">>, <<"topics", "topic">>,
       <<"pestles", "pestle">>, <<"regions", "region">>, <<"sources", "source">>,
       <<"swots", "swot">>, <<"end_years", "end_year">>, <<"start_years", "start_year">> >>

\* The request arrives.
FiltersBegin ==
    /\ fa.pc = 0
    /\ fa' = [pc |-> 1, acc |-> EmptyObj, seen |-> {items}]
    /\ req' = Request("filters", Undefined, EmptyObj, FALSE)
    /\ res' = Response(0, "pending", Null, FALSE)
    /\ sent' = EmptyObj
    /\ UNCHANGED <<items, nextId, now, hist>>

\* The store answers the next distinct query (or the query throws); after the
\* ninth the handler responds.
FiltersQuery(fault) ==
    /\ fa.pc \in DOMAIN FilterLists
    /\ sent' = EmptyObj
    /\ IF fault # NoFault
       THEN /\ fa' = [fa EXCEPT !.pc = 0]
            /\ req' = Request("filters", Undefined, EmptyObj, TRUE)
            /\ res' = FiltersCatch(fault)
       ELSE LET acc == Put(fa.acc, FilterLists[fa.pc][1], Distinct(items, FilterLists[fa.pc][2]))
            IN  IF fa.pc < Len(FilterLists)
                THEN /\ fa' = [fa EXCEPT !.pc = @ + 1, !.acc = acc]
                     /\ UNCHANGED <<req, res>>
                ELSE /\ fa' = [fa EXCEPT !.pc = 0, !.acc = acc]
                     /\ req' = Request("filters", Undefined, EmptyObj, FALSE)
                     /\ res' = Response(200, "filters", acc, FALSE)
    /\ UNCHANGED <<items, nextId, now, hist>>

----------------------------------------------------------------------------
\* Inputs

\* Well-formed identifiers, and GET /filter, which the route /:id takes as one
IdParams == {Oid(n) : n \in Ids} \cup {S("filter")}

CreateBodies ==
    { EmptyObj,
      [region |-> S("Asia"), intensity |-> N(3)],
      [region |-> S("Asia"), intensity |-> N(5), topic |-> S("oil"),
       sector |-> S("Energy"), likelihood |-> N(2), relevance |-> N(4),
       country |-> S("India"), pestle |-> S("Economic"), source |-> S("EIA"),
       start_year |-> S("2020"), end_year |-> S("2030"), impact |-> S("3"),
       insight |-> S("i"), url |-> S("u"), added |-> S("a"),
       published |-> S("p"), title |-> S("t")],
      [region |-> S("Asia"), intensity |-> Null, topic |-> S("gas"), end_year |-> S("2020")],
      [swot |-> S("strength"), intensity |-> S("5"), end_year |-> N(2020)],
      [intensity |-> S("high")],
      [_id |-> Oid(1), topic |-> S("oil")] }

UpdateBodies ==
    { EmptyObj,
      [topic |-> S("gas")],
      [region |-> S("Europe"), intensity |-> N(5)],
      [swot |-> S("strength")],
      [likelihood |-> S("high")] }

\* Queries whose values are strings: none, each parameter alone (empty and not),
\* and some combinations.
StringQueries ==
    { EmptyObj,
      [country |-> S("")], [country |-> S("India")],
      [sector |-> S("")], [sector |-> S("Energy")],
      [topic |-> S("")], [topic |-> S("oil")],
      [pestle |-> S("")], [pestle |-> S("Economic")],
      [region |-> S("")], [region |-> S("Asia")],
      [start_year |-> S("")], [start_year |-> S("2020")],
      [end_year |-> S("")], [end_year |-> S("2020")],
      [region |-> S("Asia"), topic |-> S("gas"), country |-> S("")],
      [end_year |-> S("2030"), start_year |-> S("2020"), topic |-> S("oil")],
      [country |-> S("India"), sector |-> S("Energy"), topic |-> S("oil"),
       pestle |-> S("Economic"), region |-> S("Asia"), start_year |-> S(""),
       end_year |-> S("2030")] }

\* ?topic=oil&topic=gas: a repeated parameter is parsed to an array
RepeatedQueries == {[topic |-> Arr(<<"oil", "gas">>)]}

ListQueries == StringQueries \cup RepeatedQueries

\* A JSON body may also hold an object, and source
FilterBodies ==
    StringQueries \cup RepeatedQueries
        \cup {[region |-> Obj("$ne", "Asia")],
              [source |-> S("EIA")], [source |-> S(""), region |-> S("Asia")]}

Init ==
    /\ items = EmptyObj
    /\ nextId = 1
    /\ now = 0
    /\ req = Request("none", Undefined, EmptyObj, FALSE)
    /\ res = Response(0, "none", Null, FALSE)
    /\ fa = Idle
    /\ hist = EmptyObj
    /\ sent = EmptyObj

\* The queries of the runs that are about the other handlers
SampleQueries == {EmptyObj, [topic |-> S("oil")]}

\* A request served while no GET /filters/all is in progress
Serve(handler) ==
    /\ fa.pc = 0
    /\ fa' = Idle
    /\ handler

\* Every handler, requests served one at a time, the store failing at will.
Next ==
    \/ \E q \in SampleQueries, f \in Faults : Serve(List(q, f))
    \/ \E b \in SampleQueries, f \in Faults : Serve(Filter(b, f))
    \/ \E id \in IdParams, f \in Faults : Serve(GetById(id, f))
    \/ \E b \in CreateBodies, f \in Faults : Serve(Create(b, f))
    \/ \E id \in IdParams, b \in UpdateBodies, f \in Faults : Serve(Update(id, b, f))
    \/ \E id \in IdParams, f \in Faults : Serve(Delete(id, f))
    \/ \E f \in Faults : Serve(Stats(f))
    \/ FiltersBegin
    \/ \E f \in Faults : FiltersQuery(f)

Spec == Init /\ [][Next]_vars

\* The reads over every collection the writes build, the store not failing: List
\* and Filter with every query, and the statistics.
NextQuery ==
    \/ \E b \in CreateBodies : Serve(Create(b, NoFault))
    \/ \E id \in IdParams, b \in UpdateBodies : Serve(Update(id, b, NoFault))
    \/ \E id \in IdParams : Serve(Delete(id, NoFault))
    \/ \E q \in ListQueries : Serve(List(q, NoFault))
    \/ \E b \in FilterBodies : Serve(Filter(b, NoFault))
    \/ Serve(Stats(NoFault))

SpecQuery == Init /\ [][NextQuery]_vars

\* A write of another request, served before or between the distinct queries of
\* a GET /filters/all
Concurrently(handler) ==
    /\ handler
    /\ fa' = IF fa.pc = 0 THEN Idle ELSE [fa EXCEPT !.seen = @ \cup {items'}]

NextConcurrent ==
    \/ \E b \in {c \in CreateBodies : "region" \in DOMAIN c /\ "end_year" \in DOMAIN c} :
            Concurrently(Create(b, NoFault))
    \/ \E id \in IdParams, b \in {u \in UpdateBodies : "region" \in DOMAIN u} :
            Concurrently(Update(id, b, NoFault))
    \/ \E id \in IdParams : Concurrently(Delete(id, NoFault))
    \/ FiltersBegin
    \/ FiltersQuery(NoFault)

SpecConcurrent == Init /\ [][NextConcurrent]_vars

----------------------------------------------------------------------------
\* Properties

ListKeys == {"country", "sector", "topic", "pestle", "region", "start_year", "end_year"}

IsNonEmptyString(x) == x.t = "string" /\ x.v # ""

AllStrings(o) == \A k \in DOMAIN o : o[k].t = "string"

\* C1: the filter GET / passes to the store holds exactly the parameters whose
\* value is a non-empty string, each with that string as an equality condition,
\* whatever the values are (absent, empty, string, array, object); with no
\* parameters the filter is empty and every record is returned.
C1_ListFilterOnlyNonEmptyStrings ==
    req.op = "list" /\ ~req.threw =>
        /\ DOMAIN sent = {k \in ListKeys : IsNonEmptyString(Get(req.body, k))}
        /\ \A k \in DOMAIN sent : sent[k] = req.body[k] /\ sent[k].t = "string"
        /\ req.body = EmptyObj => sent = EmptyObj /\ res.body = Docs

\* C2 as stated: for string-valued parameters (source absent) GET / and
\* POST /filter build the same filter and return the same records.
C2_SameFilterAsStated ==
    /\ req.op = "list" /\ ~req.threw /\ AllStrings(req.body) =>
          sent = ChartFilter(req.body) /\ res.body = Find(ChartFilter(req.body))
    /\ req.op = "filter" /\ ~req.threw /\ AllStrings(req.body)
          /\ "source" \notin DOMAIN req.body =>
          sent = ListFilter(req.body) /\ res.body = Find(ListFilter(req.body))

\* C2 amended: for string-valued parameters with start_year absent or empty (and
\* source absent) GET / and POST /filter build the same filter and return the
\* same records.
C2_SameFilterWithoutStartYear ==
    /\ req.op = "list" /\ ~req.threw /\ AllStrings(req.body)
          /\ ~Truthy(Get(req.body, "start_year")) =>
          sent = ChartFilter(req.body) /\ res.body = Find(ChartFilter(req.body))
    /\ req.op = "filter" /\ ~req.threw /\ AllStrings(req.body)
          /\ "source" \notin DOMAIN req.body
          /\ ~Truthy(Get(req.body, "start_year")) =>
          sent = ListFilter(req.body) /\ res.body = Find(ListFilter(req.body))

C2_Witness ==
    /\ req.op = "filter" /\ ~req.threw /\ AllStrings(req.body)
    /\ "start_year" \in DOMAIN req.body
    /\ DOMAIN sent = ListKeys \ {"start_year"}
    /\ res.body # {}

\* The three averaging pipelines: result name, group field, averaged field,
\* accumulator name
AvgPipelines ==
    { <<"avgIntensityByRegion", "region", "intensity", "avgIntensity">>,
      <<"avgLikelihoodBySector", "sector", "likelihood", "avgLikelihood">>,
      <<"avgRelevanceByYear", "end_year", "relevance", "avgRelevance">> }

\* The records of a group whose averaged field is neither null nor missing
Counted(key, by, field) ==
    {d \in Docs : FieldOrNull(d, by) = key /\ FieldOrNull(d, field).t # "null"}

\* C3: in each averaging pipeline a group appears only if some record with its
\* key has a non-null value of the averaged field, and its value is the mean over
\* exactly those records.
C3_AveragesExcludeNull ==
    res.kind = "stats" =>
        \A p \in AvgPipelines : \A i \in DOMAIN res.body[p[1]] :
            LET g == res.body[p[1]][i]
                counted == Counted(g["_id"], p[2], p[3])
            IN  /\ counted # {}
                /\ g[p[4]].t \in {"number", "fraction"}
                /\ Fraction(g[p[4]])[1] * Cardinality(counted)
                     = Fraction(g[p[4]])[2] * SumOf(counted, p[3])

RECURSIVE SumOfCounts(_)
SumOfCounts(groups) ==
    IF groups = <<>> THEN 0 ELSE Head(groups)["count"].v + SumOfCounts(Tail(groups))

\* C4: the counts of countByTopic sum to the number of records (a record without
\* a topic counted under null), and each topic value is the key of exactly one
\* group.
C4_CountByTopicSumsToTotal ==
    res.kind = "stats" =>
        LET groups == res.body["countByTopic"]
        IN  /\ SumOfCounts(groups) = Cardinality(DOMAIN items)
            /\ \A d \in Docs :
                 Cardinality({i \in DOMAIN groups :
                                groups[i]["_id"] = FieldOrNull(d, "topic")}) = 1
            /\ \A i \in DOMAIN groups :
                 groups[i]["count"].v
                   = Cardinality({d \in Docs : FieldOrNull(d, "topic") = groups[i]["_id"]})

C4_Witness ==
    /\ res.kind = "stats"
    /\ Cardinality(DOMAIN items) = 2
    /\ \E i, j \in DOMAIN res.body["countByTopic"] :
         /\ res.body["countByTopic"][i]["_id"] = Null
         /\ res.body["countByTopic"][j]["_id"].t = "string"

\* C5: the status of every response is the one the table gives: on a throwing
\* store call 400 from Create, Update and Delete and 500 from the others; else 404
\* from Get-by-id when no record has the identifier, 201 from Create, 200
\* otherwise; a malformed identifier throws.
C5_StatusTable ==
    res.kind \notin {"none", "pending"} =>
        /\ req.op \in {"get", "update", "delete"} /\ req.id.t # "oid" => req.threw
        /\ res.status =
             IF req.threw
             THEN IF req.op \in {"create", "update", "delete"} THEN 400 ELSE 500
             ELSE IF req.op = "get" /\ req.id.v \notin DOMAIN items THEN 404
             ELSE IF req.op = "create" THEN 201
             ELSE 200

C5_Witness ==
    /\ req.op = "get" /\ res.status = 404 /\ req.id.t = "oid"
    /\ DOMAIN items # {}

\* C6: an Update of an existing record changes no other record, keeps every field
\* the body does not supply (updatedAt apart), adds no field the body does not
\* supply, gives each Item field the body supplies the supplied value, and
\* responds 200 with the merged record, which a later Get-by-id returns; an
\* Update of an identifier no record has responds 200 with null and changes
\* nothing.
C6_UpdateEffect ==
    /\ req'.op = "update" /\ ~req'.threw =>
         LET i == req'.id.v
             b == req'.body
         IN  IF i \in DOMAIN items
             THEN /\ DOMAIN items' = DOMAIN items
                  /\ \A j \in DOMAIN items \ {i} : items'[j] = items[j]
                  /\ \A k \in DOMAIN items[i] \ (DOMAIN b \cup {"updatedAt"}) :
                       k \in DOMAIN items'[i] /\ items'[i][k] = items[i][k]
                  /\ \A k \in DOMAIN items'[i] \ DOMAIN items[i] : k \in DOMAIN b
                  /\ \A k \in DOMAIN b \cap SchemaPaths :
                       k \in DOMAIN items'[i] /\ items'[i][k] = b[k]
                  /\ res'.status = 200 /\ res'.kind = "doc" /\ res'.body = items'[i]
             ELSE /\ items' = items
                  /\ res'.status = 200 /\ res'.kind = "null" /\ res'.body = Null
    /\ req'.op = "get" /\ ~req'.threw /\ req'.id.v \in DOMAIN hist
          /\ hist[req'.id.v].last = "update" =>
            /\ res'.status = 200 /\ res'.body = items[req'.id.v]
            /\ \A k \in DOMAIN hist[req'.id.v].input \cap SchemaPaths :
                 res'.body[k] = hist[req'.id.v].input[k]

FetchedAfterCreate ==
    /\ req.op = "get" /\ res.status = 200
    /\ req.id.v \in DOMAIN hist /\ hist[req.id.v].last = "create"

\* C7 as stated: the record fetched after a Create has, apart from the
\* identifier, createdAt and updatedAt, exactly the fields of the input, each
\* with the input's value.
C7_CreateThenGetAsStated ==
    FetchedAfterCreate =>
        LET input == hist[req.id.v].input
        IN  /\ \A k \in DOMAIN input : k \in DOMAIN res.body /\ res.body[k] = input[k]
            /\ \A k \in DOMAIN res.body \ {"_id", "createdAt", "updatedAt"} :
                 k \in DOMAIN input

\* C7 amended: the record fetched after a Create has each Item field of the input
\* with the input's value (cast to the field's type when given as the other
\* type), no input key that is not an Item field, and no field absent from the
\* input except end_year, start_year and impact, which are "" by default, and
\* the identifier, timestamps and version key the store adds.
C7_CreateThenGetWithDefaults ==
    FetchedAfterCreate =>
        LET input == hist[req.id.v].input
        IN  /\ DOMAIN res.body =
                 (DOMAIN input \cap SchemaPaths)
                    \cup {"end_year", "start_year", "impact"}
                    \cup {"_id", "createdAt", "updatedAt", "__v"}
            /\ \A k \in DOMAIN input \cap SchemaPaths :
                 LET type == IF k \in {"intensity", "relevance", "likelihood"}
                             THEN "number" ELSE "string"
                 IN  IF input[k].t \in {type, "null"}
                     THEN res.body[k] = input[k]
                     ELSE res.body[k].t \in {type, "null"}
            /\ \A k \in {"end_year", "start_year", "impact"} \ DOMAIN input :
                 res.body[k] = S("")
            /\ "_id" \in DOMAIN input => res.body["_id"] = input["_id"]

C7_Witness ==
    /\ FetchedAfterCreate
    /\ \E k \in DOMAIN hist[req.id.v].input : k \notin SchemaPaths \cup {"_id"}
    /\ \E k \in DOMAIN hist[req.id.v].input \cap SchemaPaths :
         res.body[k] # hist[req.id.v].input[k]
    /\ "impact" \notin DOMAIN hist[req.id.v].input

\* C8: a Delete that does not throw removes at most the record of its identifier,
\* leaves every other record as it was and acknowledges; a Get-by-id on an
\* identifier whose last write was a Delete (no Create since) responds 404.
C8_DeleteEffect ==
    /\ req'.op = "delete" /\ ~req'.threw =>
         /\ DOMAIN items' = DOMAIN items \ {req'.id.v}
         /\ \A j \in DOMAIN items' : items'[j] = items[j]
         /\ res'.status = 200 /\ res'.body = Message("Item deleted")
    /\ req'.op = "get" /\ ~req'.threw /\ req'.id.v \in DOMAIN hist
          /\ hist[req'.id.v].last = "delete" =>
            res'.status = 404

CatchOf(op, err) ==
    CASE op = "list" -> ListCatch(err)
      [] op = "get" -> GetByIdCatch(err)
      [] op = "create" -> CreateCatch(err)
      [] op = "update" -> UpdateCatch(err)
      [] op = "delete" -> DeleteCatch(err)
      [] op = "filters" -> FiltersCatch(err)
      [] op = "filter" -> FilterCatch(err)
      [] op = "stats" -> StatsCatch(err)

\* C9: a failure is logged, and its response body is the one the same request
\* gets failing with any other error of the store.
C9_FailureBodyFixed ==
    req.threw =>
        /\ res.logged
        /\ \A err \in StoreErrors : CatchOf(req.op, err).body = res.body

\* The values a field takes in a collection state
ValuesOf(coll, field) ==
    UNION {IF field \in DOMAIN coll[i] THEN {coll[i][field]} ELSE {} : i \in DOMAIN coll}

FromState(coll) ==
    \A i \in DOMAIN FilterLists :
        res.body[FilterLists[i][1]] = ValuesOf(coll, FilterLists[i][2])

\* C10 as stated: the nine lists of a GET /filters/all response are the value
\* sets of one and the same collection state (one the collection was in during
\* the request), also with writes between the queries; swots is empty.
C10_OneStateAsStated ==
    res.kind = "filters" =>
        /\ \E coll \in fa.seen : FromState(coll)
        /\ res.body["swots"] = {}

\* C10 amended: each of the nine lists is the value set of its field in a state
\* the collection was in during the request; the nine come from one state when
\* no write changed the collection during the request; swots is empty.
C10_EachListFromSomeState ==
    res.kind = "filters" =>
        /\ DOMAIN res.body = {FilterLists[i][1] : i \in DOMAIN FilterLists}
        /\ \A i \in DOMAIN FilterLists : \E coll \in fa.seen :
             res.body[FilterLists[i][1]] = ValuesOf(coll, FilterLists[i][2])
        /\ Cardinality(fa.seen) = 1 => \A coll \in fa.seen : FromState(coll)
        /\ res.body["swots"] = {}

C10_Witness ==
    /\ res.kind = "filters"
    /\ Cardinality(fa.seen) > 1
    /\ res.body["regions"] # {}
    /\ ~\E coll \in fa.seen : FromState(coll)

====
